---------------------------- MODULE Spec2Model ----------------------------
(***************************************************************************)
(* Model of pkg/skaffold/deploy/kustomize.go: the KustomizeDeployer.       *)
(*                                                                         *)
(*  - Deploy and Cleanup: the render -> replace images -> apply (or        *)
(*    render -> delete) pipeline, one action per blocking stage, with the  *)
(*    caller's context cancellable at any moment.                          *)
(*  - dependenciesForKustomization: the recursive dependency resolver,     *)
(*    run as a machine with an explicit call stack over a small file       *)
(*    system of kustomization.yaml files.                                  *)
(*                                                                         *)
(* Errors are sequences of strings: <<>> is nil, errors.Wrap(err, msg)     *)
(* puts msg in front of err.  Paths are sequences of path components.      *)
(***************************************************************************)
EXTENDS Naturals, Sequences, FiniteSets

VARIABLES
    pc,         \* position of the Deploy/Cleanup invocation in flight
    op,         \* "Deploy", "Cleanup" or "none"
    ctxDone,    \* TRUE once the caller's context is cancelled
    builds,     \* the []build.Artifact passed to Deploy
    manifests,  \* the local variable manifests of Deploy/Cleanup
    calls,      \* boundary calls made by the invocation, in order
    result,     \* what the invocation returned: [res, err]
    fs,         \* directory -> contents of its kustomization.yaml
    stack,      \* call stack of dependenciesForKustomization
    ret,        \* value returned by the call that just finished
    status      \* "idle", "running", "done" or "crashed" (resolver)

vars == <<pc, op, ctxDone, builds, manifests, calls, result, fs, stack, ret, status>>

pipelineVars == <<pc, op, ctxDone, builds, manifests, calls, result>>
resolverVars == <<fs, stack, ret, status>>

---------------------------------------------------------------------------
(* Bounds of the model *)

MaxManifests == 2
MaxBases == 2
MaxRes == 2
MaxDepth == 4

---------------------------------------------------------------------------
(* Generic helpers *)

BoundedSeq(S, n) == UNION {[1..k -> S] : k \in 0..n}

nil == <<>>

\* errors.Wrap(err, msg)
Wrap(err, msg) == <<msg>> \o err

\* the innermost error of a wrap chain
Cause(err) == <<err[Len(err)]>>

RECURSIVE SubSeqs(_)
SubSeqs(s) ==
    IF s = <<>> THEN {<<>>}
    ELSE LET rest == SubSeqs(Tail(s))
         IN rest \cup {<<Head(s)>> \o t : t \in rest}

RECURSIVE Flatten(_)
Flatten(ss) == IF ss = <<>> THEN <<>> ELSE Head(ss) \o Flatten(Tail(ss))

---------------------------------------------------------------------------
(* The pipeline's data *)

\* raw manifest documents, named by the image they reference; "bad" cannot
\* be parsed for its image references
Docs == {"app", "db", "bad"}

\* what the renderer can print: a sequence of manifest documents
RenderOutputs == BoundedSeq(Docs, MaxManifests)

\* the build results a caller can pass to Deploy
BuildInputs == {<<>>, <<[ImageName |-> "app", Tag |-> "app:v1"]>>}

NoResult == [res |-> <<>>, err |-> nil]

\* one entry of the log of boundary calls
Call(fn, arg, out, err) == [fn |-> fn, arg |-> arg, out |-> out, err |-> err]

---------------------------------------------------------------------------
(* Collaborators of the pipeline *)

\* util.RunCmdOut(exec.CommandContext(ctx, "kustomize", "build", path)):
\* the process is killed when ctx is done; otherwise it prints its
\* manifests and exits 0, or fails, possibly after printing something
RunCmdOut(done) ==
    IF done
    THEN {[out |-> o, err |-> <<"signal: killed">>] : o \in {<<>>, <<"app">>}}
    ELSE {[out |-> o, err |-> nil] : o \in RenderOutputs}
         \cup {[out |-> o, err |-> <<"exit status 1">>] : o \in {<<>>, <<"app">>}}

\* ManifestList.Append(out): the documents of out are added to the list
ManifestsAppend(list, out) == list \o out

\* the image a document ends up with: the Tag of the first artifact whose
\* ImageName it references, or its own
ReplaceImage(doc, bs) ==
    IF \E i \in 1..Len(bs) : bs[i].ImageName = doc
    THEN bs[CHOOSE i \in 1..Len(bs) :
              /\ bs[i].ImageName = doc
              /\ \A j \in 1..(i - 1) : bs[j].ImageName # doc].Tag
    ELSE doc

\* ManifestList.ReplaceImages(builds): same length, same order; fails on a
\* document it cannot parse
ReplaceImages(ms, bs) ==
    IF \E i \in 1..Len(ms) : ms[i] = "bad"
    THEN [manifests |-> <<>>, err |-> <<"malformed manifest">>]
    ELSE [manifests |-> [i \in 1..Len(ms) |-> ReplaceImage(ms[i], bs)], err |-> nil]

\* kubectl.CLI.Apply(ctx, out, manifests): the manifests that were changed,
\* some of those submitted and in their order, or an error
Apply(ms) ==
    {[updated |-> u, err |-> nil] : u \in SubSeqs(ms)}
    \cup {[updated |-> u, err |-> <<"exit status 1">>] : u \in {<<>>, ms}}

\* kubectl.CLI.Delete(ctx, out, manifests): nil or an error
Delete(ms) == {nil, <<"exit status 1">>}

\* parseManifestsForDeploys(updated): one Artifact per updated manifest
parseManifestsForDeploys(updated) ==
    [res |-> [i \in 1..Len(updated) |-> [deployed |-> updated[i]]], err |-> nil]

---------------------------------------------------------------------------
(* KustomizeDeployer.readManifests *)

\* readManifests as it would be with exec.Command in place of
\* exec.CommandContext: the renderer never sees the cancellation
readManifestsWithoutContext(done) ==
    {IF r.err # nil
     THEN [manifests |-> <<>>, err |-> Wrap(r.err, "kustomize build")]
     ELSE [manifests |-> ManifestsAppend(<<>>, r.out), err |-> nil]
       : r \in RunCmdOut(FALSE)}

readManifests(done) ==
    {IF r.err # nil
     THEN [manifests |-> <<>>, err |-> Wrap(r.err, "kustomize build")]
     ELSE [manifests |-> ManifestsAppend(<<>>, r.out), err |-> nil]
       : r \in RunCmdOut(done)}

---------------------------------------------------------------------------
(* KustomizeDeployer.Deploy *)

\* a return statement of Deploy or Cleanup
Return(res, err) ==
    /\ pc' = "done"
    /\ result' = [res |-> res, err |-> err]
    /\ manifests' = <<>>

\* a caller invokes Deploy(ctx, out, builds) with a live context
DeployCall(b) ==
    /\ pc \in {"idle", "done"}
    /\ pc' = "readManifests"
    /\ op' = "Deploy"
    /\ ctxDone' = FALSE
    /\ builds' = b
    /\ manifests' = <<>>
    /\ calls' = <<>>
    /\ result' = NoResult
    /\ UNCHANGED resolverVars

\* the caller cancels the context of the invocation in flight
Cancel ==
    /\ pc \notin {"idle", "done"}
    /\ ~ctxDone
    /\ ctxDone' = TRUE
    /\ UNCHANGED <<pc, op, builds, manifests, calls, result>>
    /\ UNCHANGED resolverVars

\* DeployAfterRead without the len(manifests) == 0 return
DeployAfterReadNoEmptyCheck(r) ==
    IF r.err # nil
    THEN Return(<<>>, Wrap(r.err, "reading manifests"))
    ELSE /\ pc' = "ReplaceImages"
         /\ manifests' = r.manifests
         /\ UNCHANGED result

\* lines 61-67: what Deploy does with the outcome r of readManifests
DeployAfterRead(r) ==
    IF r.err # nil
    THEN Return(<<>>, Wrap(r.err, "reading manifests"))
    ELSE IF Len(r.manifests) = 0
         THEN Return(<<>>, nil)
         ELSE /\ pc' = "ReplaceImages"
              /\ manifests' = r.manifests
              /\ UNCHANGED result

\* lines 60-67
DeployReadManifests ==
    /\ pc = "readManifests"
    /\ op = "Deploy"
    /\ \E r \in readManifests(ctxDone) :
          /\ calls' = Append(calls, Call("kustomize", <<>>, r.manifests, r.err))
          /\ DeployAfterRead(r)
    /\ UNCHANGED <<op, ctxDone, builds>>
    /\ UNCHANGED resolverVars

\* DeployAfterReplace with the error of ReplaceImages dropped
DeployAfterReplaceIgnoresErr(r) ==
    /\ pc' = "Apply"
    /\ manifests' = r.manifests
    /\ UNCHANGED result

\* lines 70-72: what Deploy does with the outcome r of ReplaceImages
DeployAfterReplace(r) ==
    IF r.err # nil
    THEN Return(<<>>, Wrap(r.err, "replacing images in manifests"))
    ELSE /\ pc' = "Apply"
         /\ manifests' = r.manifests
         /\ UNCHANGED result

\* lines 69-72
DeployReplaceImages ==
    /\ pc = "ReplaceImages"
    /\ LET r == ReplaceImages(manifests, builds)
       IN /\ calls' = Append(calls, Call("ReplaceImages", manifests, r.manifests, r.err))
          /\ DeployAfterReplace(r)
    /\ UNCHANGED <<op, ctxDone, builds>>
    /\ UNCHANGED resolverVars

\* DeployAfterApply reporting the submitted manifests instead of the updated
DeployAfterApplyParsesSubmitted(a) ==
    IF a.err # nil
    THEN Return(<<>>, Wrap(a.err, "apply"))
    ELSE LET p == parseManifestsForDeploys(manifests)
         IN Return(p.res, p.err)

\* lines 75-79: what Deploy returns given the outcome a of Apply
DeployAfterApply(a) ==
    IF a.err # nil
    THEN Return(<<>>, Wrap(a.err, "apply"))
    ELSE LET p == parseManifestsForDeploys(a.updated)
         IN Return(p.res, p.err)

\* lines 74-79
DeployApply ==
    /\ pc = "Apply"
    /\ \E a \in Apply(manifests) :
          /\ calls' = Append(calls, Call("Apply", manifests, a.updated, a.err))
          /\ DeployAfterApply(a)
    /\ UNCHANGED <<op, ctxDone, builds>>
    /\ UNCHANGED resolverVars

---------------------------------------------------------------------------
(* KustomizeDeployer.Cleanup *)

\* a caller invokes Cleanup(ctx, out) with a live context
CleanupCall ==
    /\ pc \in {"idle", "done"}
    /\ pc' = "readManifests"
    /\ op' = "Cleanup"
    /\ ctxDone' = FALSE
    /\ builds' = <<>>
    /\ manifests' = <<>>
    /\ calls' = <<>>
    /\ result' = NoResult
    /\ UNCHANGED resolverVars

\* CleanupAfterRead with Deploy's return on an empty collection copied in
CleanupAfterReadSkipsEmpty(r) ==
    IF r.err # nil
    THEN Return(<<>>, Wrap(r.err, "reading manifests"))
    ELSE IF Len(r.manifests) = 0
         THEN Return(<<>>, nil)
         ELSE /\ pc' = "Delete"
              /\ manifests' = r.manifests
              /\ UNCHANGED result

\* lines 84-86: what Cleanup does with the outcome r of readManifests
CleanupAfterRead(r) ==
    IF r.err # nil
    THEN Return(<<>>, Wrap(r.err, "reading manifests"))
    ELSE /\ pc' = "Delete"
         /\ manifests' = r.manifests
         /\ UNCHANGED result

\* lines 83-86
CleanupReadManifests ==
    /\ pc = "readManifests"
    /\ op = "Cleanup"
    /\ \E r \in readManifests(ctxDone) :
          /\ calls' = Append(calls, Call("kustomize", <<>>, r.manifests, r.err))
          /\ CleanupAfterRead(r)
    /\ UNCHANGED <<op, ctxDone, builds>>
    /\ UNCHANGED resolverVars

\* lines 88-92: what Cleanup returns given the outcome e of Delete
CleanupAfterDelete(e) ==
    IF e # nil
    THEN Return(<<>>, Wrap(e, "delete"))
    ELSE Return(<<>>, nil)

\* lines 88-92
CleanupDelete ==
    /\ pc = "Delete"
    /\ \E e \in Delete(manifests) :
          /\ calls' = Append(calls, Call("Delete", manifests, <<>>, e))
          /\ CleanupAfterDelete(e)
    /\ UNCHANGED <<op, ctxDone, builds>>
    /\ UNCHANGED resolverVars

---------------------------------------------------------------------------
(* The pipeline as a system *)

ResolverIdle ==
    /\ fs = <<>>
    /\ stack = <<>>
    /\ ret = <<>>
    /\ status = "idle"

InitPipeline ==
    /\ pc = "idle"
    /\ op = "none"
    /\ ctxDone = FALSE
    /\ builds = <<>>
    /\ manifests = <<>>
    /\ calls = <<>>
    /\ result = NoResult
    /\ ResolverIdle

NextPipeline ==
    \/ \E b \in BuildInputs : DeployCall(b)
    \/ DeployReadManifests
    \/ DeployReplaceImages
    \/ DeployApply
    \/ CleanupCall
    \/ CleanupReadManifests
    \/ CleanupDelete
    \/ Cancel

SpecPipeline == InitPipeline /\ [][NextPipeline]_vars

---------------------------------------------------------------------------
(* Paths: sequences of components, as filepath.Join and Clean treat them *)

\* filepath.Clean, on the components still to read (rest) and those kept
\* (out): "." is dropped, ".." removes the component before it unless
\* there is none or it is ".." itself
RECURSIVE CleanFrom(_, _)
CleanFrom(out, rest) ==
    IF rest = <<>> THEN out
    ELSE LET c == Head(rest)
         IN IF c = "."
            THEN CleanFrom(out, Tail(rest))
            ELSE IF c = ".." /\ out # <<>> /\ out[Len(out)] # ".."
                 THEN CleanFrom(SubSeq(out, 1, Len(out) - 1), Tail(rest))
                 ELSE CleanFrom(Append(out, c), Tail(rest))

Clean(p) == CleanFrom(<<>>, p)

\* filepath.Join(dir, elem)
Join(dir, elem) == Clean(dir \o elem)

\* line 96: the definition file of a directory
DefPath(dir) == Join(dir, <<"kustomization.yaml">>)

---------------------------------------------------------------------------
(* The file system the resolver reads *)

\* k.KustomizePath
KustomizePath == <<"a">>

\* the directories that may hold a kustomization.yaml; any other is missing
OverlayDirs == {<<"a">>, <<"b">>}

\* entries a kustomization.yaml can list, relative to its directory
BaseRefs == {<<"..", "b">>, <<"c">>}
ResNames == {<<"r.yaml">>, <<"..", "s.yaml">>}
PatchLists == {<<>>, <<<<"p.yaml">>>>}

\* os.Open fails / the decoder fails: contents stays the zero struct
Missing == [kind |-> "missing", bases |-> <<>>, resources |-> <<>>, patches |-> <<>>]
Bad == [kind |-> "bad", bases |-> <<>>, resources |-> <<>>, patches |-> <<>>]

Kustomizations ==
    {Missing, Bad}
    \cup [kind : {"ok"},
          bases : BoundedSeq(BaseRefs, MaxBases),
          resources : BoundedSeq(ResNames, MaxRes),
          patches : PatchLists]

\* what opening and decoding dir/kustomization.yaml meets
ReadFile(dir) == IF dir \in DOMAIN fs THEN fs[dir] ELSE Missing

---------------------------------------------------------------------------
(* dependenciesForKustomization *)

Top == stack[Len(stack)]
Pop == SubSeq(stack, 1, Len(stack) - 1)

Returned(deps, err) == <<[deps |-> deps, err |-> err]>>

\* lines 96-114 with the error of the decoder dropped
OpenAndDecodeIgnoresDecodeErr(dir) ==
    LET f == ReadFile(dir)
    IN IF f.kind = "missing"
       THEN [deps |-> <<DefPath(dir)>>, err |-> <<"no such file or directory">>]
       ELSE [deps |-> <<DefPath(dir)>>, err |-> nil]

\* lines 96-114: deps starts as the definition path; open or decode may fail
OpenAndDecode(dir) ==
    LET f == ReadFile(dir)
    IN IF f.kind = "missing"
       THEN [deps |-> <<DefPath(dir)>>, err |-> <<"no such file or directory">>]
       ELSE IF f.kind = "bad"
            THEN [deps |-> <<DefPath(dir)>>, err |-> <<"yaml: cannot unmarshal">>]
            ELSE [deps |-> <<DefPath(dir)>>, err |-> nil]

\* a call of dependenciesForKustomization(dir) up to its loop over the
\* bases: it returns at once on an error, or gets a frame
Enter(dir) ==
    LET o == OpenAndDecode(dir)
    IN IF o.err # nil
       THEN /\ ret' = Returned(o.deps, o.err)
            /\ stack' = stack
            /\ status' = IF stack = <<>> THEN "done" ELSE "running"
       ELSE /\ ret' = <<>>
            /\ stack' = Append(stack, [dir |-> dir, deps |-> o.deps, i |-> 1])
            /\ status' = "running"

\* lines 134-136: Dependencies()
Dependencies ==
    /\ status = "idle"
    /\ Enter(KustomizePath)
    /\ UNCHANGED fs
    /\ UNCHANGED pipelineVars

\* the frame on top is at line 116 with a base still to resolve
AtBase ==
    /\ status = "running"
    /\ ret = <<>>
    /\ Top.i <= Len(ReadFile(Top.dir).bases)

\* the directory of the base the frame on top is at
BaseDir == Join(Top.dir, ReadFile(Top.dir).bases[Top.i])

\* line 117: the recursive call
RecurseBase ==
    /\ AtBase
    /\ Len(stack) < MaxDepth
    /\ Enter(BaseDir)
    /\ UNCHANGED fs
    /\ UNCHANGED pipelineVars

\* line 117 when the process has no room for one more call: every frame
\* holds its file open (line 103), so the next open fails for lack of
\* descriptors, or the goroutine's stack is exhausted and the runtime
\* ends the process
RecurseBaseExhausted ==
    /\ AtBase
    /\ Len(stack) = MaxDepth
    /\ \/ /\ ret' = Returned(<<DefPath(BaseDir)>>, <<"too many open files">>)
          /\ UNCHANGED <<stack, status>>
       \/ /\ status' = "crashed"
          /\ UNCHANGED <<stack, ret>>
    /\ UNCHANGED fs
    /\ UNCHANGED pipelineVars

\* line 118 with the operands of append swapped
AppendBaseDepsInFront(deps, baseDeps) == baseDeps \o deps

\* line 118: deps = append(deps, baseDeps...)
AppendBaseDeps(deps, baseDeps) == deps \o baseDeps

\* a return statement of dependenciesForKustomization
ReturnDeps(deps, err) ==
    /\ ret' = Returned(deps, err)
    /\ stack' = Pop
    /\ status' = IF Len(stack) = 1 THEN "done" ELSE "running"

\* lines 118-121 without the check of err
ReturnFromBaseIgnoresErr ==
    /\ status = "running"
    /\ ret # <<>>
    /\ LET deps == AppendBaseDeps(Top.deps, ret[1].deps)
       IN /\ ret' = <<>>
          /\ stack' = [stack EXCEPT ![Len(stack)].deps = deps,
                                    ![Len(stack)].i = @ + 1]
          /\ UNCHANGED status
    /\ UNCHANGED fs
    /\ UNCHANGED pipelineVars

\* lines 118-121: the recursive call has returned
ReturnFromBase ==
    /\ status = "running"
    /\ ret # <<>>
    /\ LET deps == AppendBaseDeps(Top.deps, ret[1].deps)
       IN IF ret[1].err # nil
          THEN ReturnDeps(deps, ret[1].err)
          ELSE /\ ret' = <<>>
               /\ stack' = [stack EXCEPT ![Len(stack)].deps = deps,
                                         ![Len(stack)].i = @ + 1]
               /\ UNCHANGED status
    /\ UNCHANGED fs
    /\ UNCHANGED pipelineVars

\* lines 124-130 with the two loops in the other order
WithPatchesThenResources(deps, dir, c) ==
    deps \o [i \in 1..Len(c.patches) |-> Join(dir, c.patches[i])]
         \o [i \in 1..Len(c.resources) |-> Join(dir, c.resources[i])]

\* lines 124-130: the resources, then the patches, each joined with dir
WithResourcesAndPatches(deps, dir, c) ==
    deps \o [i \in 1..Len(c.resources) |-> Join(dir, c.resources[i])]
         \o [i \in 1..Len(c.patches) |-> Join(dir, c.patches[i])]

\* lines 124-132: the loop over the bases is over
AppendAndReturn ==
    /\ status = "running"
    /\ ret = <<>>
    /\ Top.i > Len(ReadFile(Top.dir).bases)
    /\ ReturnDeps(WithResourcesAndPatches(Top.deps, Top.dir, ReadFile(Top.dir)), nil)
    /\ UNCHANGED fs
    /\ UNCHANGED pipelineVars

---------------------------------------------------------------------------
(* The resolver as a system *)

PipelineIdle ==
    /\ pc = "idle"
    /\ op = "none"
    /\ ctxDone = FALSE
    /\ builds = <<>>
    /\ manifests = <<>>
    /\ calls = <<>>
    /\ result = NoResult

InitResolver ==
    /\ fs \in [OverlayDirs -> Kustomizations]
    /\ stack = <<>>
    /\ ret = <<>>
    /\ status = "idle"
    /\ PipelineIdle

NextResolver ==
    \/ Dependencies
    \/ RecurseBase
    \/ RecurseBaseExhausted
    \/ ReturnFromBase
    \/ AppendAndReturn

SpecResolver == InitResolver /\ [][NextResolver]_vars

---------------------------------------------------------------------------
(* Properties of the pipeline *)

Invoked(fn) == \E i \in 1..Len(calls) : calls[i].fn = fn

\* the render of the invocation in flight has returned
Rendered == Len(calls) >= 1

DeployStages == <<"kustomize", "ReplaceImages", "Apply">>

\* C1: a Deploy whose render succeeds with an empty collection is over at
\* once, with an empty result set and a nil error, and has invoked neither
\* ReplaceImages nor Apply.
C1_EmptyRenderIsNoOp ==
    (op = "Deploy" /\ Rendered /\ calls[1].err = nil /\ calls[1].out = <<>>)
        => /\ pc = "done"
           /\ result = [res |-> <<>>, err |-> nil]
           /\ ~Invoked("ReplaceImages")
           /\ ~Invoked("Apply")

C1_Witness ==
    /\ op = "Deploy"
    /\ pc = "done"
    /\ calls = <<Call("kustomize", <<>>, <<>>, nil)>>
    /\ result = [res |-> <<>>, err |-> nil]

\* C2: in a Deploy, a stage that fails is the last stage invoked (a render
\* failure: no ReplaceImages, no Apply; a ReplaceImages failure: no Apply),
\* the invocation is over, its result set is empty and its error is non-nil
\* and carries the error of that stage; an invocation that returns an error
\* returns no results.
C2_FailureAborts ==
    op = "Deploy" =>
        /\ \A i \in 1..Len(calls) :
              calls[i].err # nil =>
                  /\ i = Len(calls)
                  /\ pc = "done"
                  /\ result.res = <<>>
                  /\ result.err # nil
                  /\ Cause(result.err) = Cause(calls[i].err)
        /\ (pc = "done" /\ result.err # nil) => result.res = <<>>

C2_Witness ==
    /\ op = "Deploy"
    /\ pc = "done"
    /\ Len(calls) = 3
    /\ calls[3].fn = "Apply"
    /\ calls[3].err # nil
    /\ calls[3].out # <<>>
    /\ result.res = <<>>
    /\ result.err = <<"apply", "exit status 1">>

\* C3: when the context is cancelled while Deploy is still rendering, the
\* render step ends the invocation with a "reading manifests" error and an
\* empty result set, and neither ReplaceImages nor Apply is invoked.
C3_CancelDuringRender ==
    [][(op = "Deploy" /\ pc = "readManifests" /\ ctxDone)
          => /\ pc' = "done"
             /\ result'.err # nil
             /\ result'.err[1] = "reading manifests"
             /\ result'.res = <<>>
             /\ \A i \in 1..Len(calls') :
                   calls'[i].fn \notin {"ReplaceImages", "Apply"}]_vars

C3_Witness ==
    /\ op = "Deploy"
    /\ pc = "done"
    /\ ctxDone
    /\ Len(calls) = 1
    /\ result.err = <<"reading manifests", "kustomize build", "signal: killed">>

\* C4: a Cleanup renders first; a failed render ends it with an error and
\* no Delete; a successful render is followed by exactly one Delete, given
\* the rendered collection as it is (empty or not), with no ReplaceImages
\* and no Apply; Cleanup returns nil exactly when Delete succeeds.
C4_Cleanup ==
    op = "Cleanup" =>
        /\ Len(calls) <= 2
        /\ Rendered => calls[1].fn = "kustomize"
        /\ (Rendered /\ calls[1].err # nil) =>
              /\ pc = "done"
              /\ Len(calls) = 1
              /\ result.err # nil
        /\ (Rendered /\ calls[1].err = nil) =>
              /\ pc \in {"Delete", "done"}
              /\ pc = "Delete" => manifests = calls[1].out
              /\ pc = "done" =>
                    /\ Len(calls) = 2
                    /\ calls[2].fn = "Delete"
                    /\ calls[2].arg = calls[1].out
                    /\ (result.err = nil) <=> (calls[2].err = nil)
        /\ ~Invoked("ReplaceImages")
        /\ ~Invoked("Apply")

C4_Witness ==
    /\ op = "Cleanup"
    /\ pc = "done"
    /\ Len(calls) = 2
    /\ calls[1].out = <<>>
    /\ calls[2] = Call("Delete", <<>>, <<>>, nil)
    /\ result.err = nil

\* C10: a Deploy invokes its stages in the order render, ReplaceImages,
\* Apply, each at most once and each only after the one before succeeded;
\* Apply is given the collection ReplaceImages returned; the results are
\* those of the manifests Apply reported as updated.
C10_StageOrder ==
    op = "Deploy" =>
        /\ Len(calls) <= 3
        /\ \A i \in 1..Len(calls) :
              /\ calls[i].fn = DeployStages[i]
              /\ i > 1 => calls[i - 1].err = nil
        /\ Len(calls) >= 2 => calls[2].arg = calls[1].out
        /\ Len(calls) = 3 => calls[3].arg = calls[2].out
        /\ (pc = "done" /\ Len(calls) = 3 /\ calls[3].err = nil) =>
              /\ result.err = nil
              /\ Len(result.res) = Len(calls[3].out)
              /\ \A i \in 1..Len(result.res) :
                    result.res[i].deployed = calls[3].out[i]

C10_Witness ==
    /\ op = "Deploy"
    /\ pc = "done"
    /\ Len(calls) = 3
    /\ calls[3].err = nil
    /\ calls[2].out # calls[2].arg
    /\ calls[3].out # calls[3].arg
    /\ calls[3].out # <<>>
    /\ Len(result.res) = Len(calls[3].out)

---------------------------------------------------------------------------
(* Properties of the resolver *)

\* the directory of the call whose return value ret holds
CalleeDir == IF stack = <<>> THEN KustomizePath ELSE BaseDir

Bases(dir) == ReadFile(dir).bases

\* every definition file below dir can be read and no directory comes
\* back on a chain of bases that starts at dir
RECURSIVE Readable(_, _)
Readable(dir, chain) ==
    /\ dir \notin chain
    /\ ReadFile(dir).kind = "ok"
    /\ \A i \in 1..Len(Bases(dir)) :
          Readable(Join(dir, Bases(dir)[i]), chain \cup {dir})

\* the dependency set of a readable, acyclic hierarchy: the definition
\* path, the sets of the bases in their order, the resources, the patches
RECURSIVE Closure(_)
Closure(dir) ==
    LET c == ReadFile(dir)
    IN <<DefPath(dir)>>
       \o Flatten([i \in 1..Len(c.bases) |-> Closure(Join(dir, c.bases[i]))])
       \o [i \in 1..Len(c.resources) |-> Join(dir, c.resources[i])]
       \o [i \in 1..Len(c.patches) |-> Join(dir, c.patches[i])]

\* C5: every call that returns, with or without an error, returns a set
\* that is not empty and starts with the definition path of the directory
\* it was called on.
C5_DefPathFirst ==
    ret # <<>> =>
        /\ ret[1].deps # <<>>
        /\ ret[1].deps[1] = CalleeDir \o <<"kustomization.yaml">>

C5_Witness ==
    /\ status = "done"
    /\ ret[1].err # nil
    /\ Len(ret[1].deps) > 1
    /\ ret[1].deps[1] = <<"a", "kustomization.yaml">>

\* C6: a call on a directory whose definition file cannot be opened or
\* cannot be decoded returns the definition path alone and a non-nil error.
C6_UnreadableDefinition ==
    (ret # <<>> /\ (ReadFile(CalleeDir).kind # "ok" \/ Len(stack) = MaxDepth))
        => /\ ret[1].deps = <<CalleeDir \o <<"kustomization.yaml">>>>
           /\ ret[1].err # nil

C6_Witness ==
    /\ status = "done"
    /\ fs[KustomizePath].kind = "bad"
    /\ ret = Returned(<<<<"a", "kustomization.yaml">>>>, <<"yaml: cannot unmarshal">>)

\* C7: a call on a readable, acyclic hierarchy returns no error and the
\* definition path, then the whole set of each base in the order listed,
\* then the resources, then the patches, nothing removed.
C7_ClosureOrder ==
    (ret # <<>> /\ Readable(CalleeDir, {}))
        => /\ ret[1].err = nil
           /\ ret[1].deps = Closure(CalleeDir)

C7_Witness ==
    /\ status = "done"
    /\ fs[<<"a">>].bases = <<<<"..", "b">>, <<"..", "b">>>>
    /\ fs[<<"a">>].resources = <<<<"..", "s.yaml">>, <<"r.yaml">>>>
    /\ fs[<<"a">>].patches = <<<<"p.yaml">>>>
    /\ fs[<<"b">>].kind = "ok"
    /\ fs[<<"b">>].bases = <<>>
    /\ fs[<<"b">>].resources = <<<<"r.yaml">>>>
    /\ fs[<<"b">>].patches = <<>>
    /\ ret = Returned(<<<<"a", "kustomization.yaml">>,
                        <<"b", "kustomization.yaml">>, <<"b", "r.yaml">>,
                        <<"b", "kustomization.yaml">>, <<"b", "r.yaml">>,
                        <<"s.yaml">>, <<"a", "r.yaml">>, <<"a", "p.yaml">>>>, nil)

\* C8: when the call on base number i returns an error, the caller holds
\* its definition path followed by the whole sets of the bases before i,
\* and its next step is to return that, followed by what base i returned,
\* with the same error: no later base, no resource, no patch.
C8_ErrorInBase ==
    [][(status = "running" /\ ret # <<>> /\ ret[1].err # nil)
          => /\ \A j \in 1..(Top.i - 1) : Readable(Join(Top.dir, Bases(Top.dir)[j]), {})
             /\ Top.deps = <<DefPath(Top.dir)>>
                   \o Flatten([j \in 1..(Top.i - 1) |->
                                  Closure(Join(Top.dir, Bases(Top.dir)[j]))])
             /\ ret' = Returned(Top.deps \o ret[1].deps, ret[1].err)
             /\ stack' = Pop]_vars

C8_Witness ==
    /\ status = "done"
    /\ fs[<<"a">>].bases = <<<<"..", "b">>, <<"..", "b">>>>
    /\ fs[<<"a">>].resources # <<>>
    /\ fs[<<"b">>].bases = <<<<"c">>>>
    /\ fs[<<"b">>].resources # <<>>
    /\ ret = Returned(<<<<"a", "kustomization.yaml">>,
                        <<"b", "kustomization.yaml">>,
                        <<"b", "c", "kustomization.yaml">>>>,
                      <<"no such file or directory">>)

\* C9: a directory never comes back on the chain of calls in progress (the
\* call on it fails with an error instead), and the resolver never runs out
\* of room for a call.
C9_CycleFailsFast ==
    /\ status # "crashed"
    /\ \A i, j \in 1..Len(stack) : stack[i].dir = stack[j].dir => i = j

===========================================================================
